---- MODULE Spec2Model ----
(***************************************************************************)
(* SENTINEL-X: the shared state (utils.py, SentinelState) and the three    *)
(* monitoring threads plus the dashboard thread (sentinel_engine.py,       *)
(* SentinelEngine), as a state machine.                                    *)
(*                                                                         *)
(* Every accessor of SentinelState runs under self._lock.  An accessor     *)
(* made of several statements is modelled statement by statement while the *)
(* lock is held; an accessor made of one statement is one step.            *)
(* Python objects that are shared by reference (the log list, the host     *)
(* statistics dict) keep their identity: host dicts live in the heap       *)
(* `dicts` and are named by their index, a snapshot's log list is either   *)
(* its own copy or the live list.                                          *)
(***************************************************************************)
EXTENDS Integers, Sequences, FiniteSets, TLC

\* ---------------------------------------------------------------- bounds
MaxPolls == 1
MaxHostUpdates == 1    \* host samples published by telemetry_loop / a caller
MaxLogCalls == 52      \* add_log calls of the accessor-level log specification
MaxAnalyses == 1       \* update_analysis calls of the accessor-level log specification
MaxAccLogs == 2        \* add_log calls of the accessor-level specification

\* ------------------------------------------------------ program constants
LogCap == 50           \* utils.py:36
MaxAttempts == 2       \* sentinel_engine.py:162

Threads == {"modbus", "telemetry", "vision", "ui"}
NoThread == "none"

CONNECTING == "CONNECTING..."
OFFLINE == "OFFLINE"
ONLINE == "ONLINE (MODBUS_TCP)"
ISOLATED == "ISOLATED (SAFE)"

SECURE == "SECURE"
ATTACK == "ATTACK"

\* Texts are sequences of words, so that the verdict parse can search them.
InitText == <<"Initializing", "Industrial", "Defense...">>
NoKeyText == <<"CRITICAL:", "NO", "API", "KEY", "CONFIGURED">>
AccessErrorText == <<"API", "ACCESS", "ERROR:", "CHECK", "MODEL", "AVAILABILITY">>
DelayText == <<"REASONING", "DELAY:">>

\* Responses of the inference service
RespAttack == <<"Reasoning:", "smoke", "detected.", "VERDICT:", "ATTACK">>
RespSecure == <<"Reasoning:", "clear.", "VERDICT:", "SECURE">>
Responses == {RespAttack, RespSecure}

\* Host samples (cpu, ram)
HostSamples == {<<10, 20>>}

\* Log line texts
LogOK == "STATUS: OK"
LogComms == "[MODBUS] COMMS ERROR"
LogException == "[MODBUS EXCEPTION]"
LogVision == "[VISION] Connected"
LogPhysical == "[SENTINEL] PHYSICAL ISOLATION"
LogSevered == "[SENTINEL] NETWORK CONNECTION SEVERED."

VARIABLES
    \* SentinelState fields
    ics_logs, visual_analysis, verdict, lockdown, host_stats, plc_status, lock,
    dicts,          \* heap of host-statistics dict objects; host_stats is an index
    \* per thread: position, accessor call in progress, snapshot held
    pc, call, snap, held,
    \* locals of modbus_loop and vision_loop, fields of SentinelEngine
    plc_pid, connected, client, model_name, attempt, probe, cap_open,
    \* environment
    api_key, reachable, plc_running, polls,
    issued,         \* accessor calls made so far that a bound limits
    \* history of the run (not read by the program)
    appended, attackCalled, isolatedSeen, committed, pending, snapGhost,
    connectsAfterLockdown, captured, inferred, attackOnline

accVars == <<ics_logs, visual_analysis, verdict, lockdown, host_stats, plc_status,
             lock, dicts, call, snap, held, appended, attackCalled, isolatedSeen,
             committed, pending, snapGhost>>
taskVars == <<pc, plc_pid, connected, client, model_name, attempt, probe, cap_open,
              api_key, reachable, plc_running, polls, issued, connectsAfterLockdown,
              captured, inferred, attackOnline>>
vars == <<accVars, taskVars>>

\* ------------------------------------------------------------- helpers
Min(a, b) == IF a < b THEN a ELSE b

IdleCall == [op |-> "idle", step |-> 0, verdict |-> SECURE]
Idle(t) == call[t].op = "idle"

AnalysisOf(a, v, l) == [analysis |-> a, verdict |-> v, lockdown |-> l]

\* the contents a snapshot's log list has now
SnapLogs(s) == IF s.logs.shared THEN ics_logs ELSE s.logs.items
\* the contents a snapshot's host dict has now
SnapHost(s) == dicts[s.host]

EmptySnap == [logs |-> [shared |-> FALSE, items |-> <<>>], analysis |-> <<>>,
              verdict |-> SECURE, lockdown |-> FALSE, host |-> 1,
              plc_status |-> CONNECTING]
EmptyGhost == [afterAttack |-> FALSE, afterIsolated |-> FALSE,
               pre |-> AnalysisOf(<<>>, SECURE, FALSE),
               post |-> AnalysisOf(<<>>, SECURE, FALSE),
               appended |-> 0,
               logs |-> <<>>, host |-> [cpu |-> 0, ram |-> 0]]

\* ------------------------------------------------- SentinelState.__init__
StateInit ==
    /\ ics_logs = <<>>
    /\ visual_analysis = InitText
    /\ verdict = SECURE
    /\ lockdown = FALSE
    /\ dicts = <<[cpu |-> 0, ram |-> 0]>>
    /\ host_stats = 1
    /\ plc_status = CONNECTING
    /\ lock = NoThread
    /\ call = [t \in Threads |-> IdleCall]
    /\ snap = [t \in Threads |-> EmptySnap]
    /\ held = [t \in Threads |-> FALSE]
    /\ snapGhost = [t \in Threads |-> EmptyGhost]
    /\ appended = 0
    /\ attackCalled = FALSE
    /\ isolatedSeen = FALSE
    /\ committed = AnalysisOf(InitText, SECURE, FALSE)
    /\ pending = AnalysisOf(InitText, SECURE, FALSE)

\* ------------------------------------------------------------- accessors
\* `with self._lock:` of the mutators
_lock == lock = NoThread

\* get_snapshot written without `with self._lock:`
get_snapshot_unlocked == TRUE

\* `with self._lock:` of get_snapshot
get_snapshot_lock == lock = NoThread

\* update_host: binds a NEW dict, the old one is left as it was
update_host(t, cpu, ram) ==
    /\ _lock
    /\ dicts' = Append(dicts, [cpu |-> cpu, ram |-> ram])
    /\ host_stats' = Len(dicts) + 1
    /\ UNCHANGED <<ics_logs, visual_analysis, verdict, lockdown, plc_status, lock,
                   call, snap, held, appended, attackCalled, isolatedSeen,
                   committed, pending, snapGhost>>

\* add_log, first statement: self.ics_logs.append(log) (in place)
add_log(t, txt) ==
    /\ _lock
    /\ lock' = t
    /\ ics_logs' = Append(ics_logs, [seq |-> appended + 1, txt |-> txt])
    /\ appended' = appended + 1
    /\ call' = [call EXCEPT ![t] = [op |-> "add_log", step |-> 2, verdict |-> SECURE]]
    /\ UNCHANGED <<visual_analysis, verdict, lockdown, host_stats, plc_status, dicts,
                   snap, held, attackCalled, isolatedSeen, committed, pending,
                   snapGhost>>

\* `if len(self.ics_logs) > 50`
add_log_full(l) == Len(l) > LogCap

\* `self.ics_logs.pop()`: the newest line is dropped
add_log_pop_newest(l) == SubSeq(l, 1, Len(l) - 1)

\* `self.ics_logs.pop(0)`
add_log_pop(l) == Tail(l)

\* add_log, second statement, then the lock is released
add_log_evict(t) ==
    /\ call[t].op = "add_log" /\ call[t].step = 2
    /\ ics_logs' = IF add_log_full(ics_logs) THEN add_log_pop(ics_logs) ELSE ics_logs
    /\ lock' = NoThread
    /\ call' = [call EXCEPT ![t] = IdleCall]
    /\ UNCHANGED <<visual_analysis, verdict, lockdown, host_stats, plc_status, dicts,
                   snap, held, appended, attackCalled, isolatedSeen, committed,
                   pending, snapGhost>>

\* `self.lockdown = (verdict == "ATTACK")`: a SECURE verdict clears the flag
update_analysis_lockdown_reset(v, old) == v = ATTACK

\* `self.lockdown = True` without the `if`
update_analysis_lockdown_always(v, old) == TRUE

\* `if verdict == "ATTACK": self.lockdown = True`
update_analysis_lockdown(v, old) == IF v = ATTACK THEN TRUE ELSE old

\* update_analysis, first statement: self.visual_analysis = text
update_analysis(t, text, v) ==
    /\ _lock
    /\ lock' = t
    /\ visual_analysis' = text
    /\ call' = [call EXCEPT ![t] = [op |-> "update_analysis", step |-> 2, verdict |-> v]]
    /\ attackCalled' = (attackCalled \/ v = ATTACK)
    /\ pending' = AnalysisOf(text, v, lockdown \/ v = ATTACK)
    /\ UNCHANGED <<ics_logs, verdict, lockdown, host_stats, plc_status, dicts, snap,
                   held, appended, isolatedSeen, committed, snapGhost>>

\* update_analysis, second statement: self.verdict = verdict
update_analysis_verdict(t) ==
    /\ call[t].op = "update_analysis" /\ call[t].step = 2
    /\ verdict' = call[t].verdict
    /\ call' = [call EXCEPT ![t].step = 3]
    /\ UNCHANGED <<ics_logs, visual_analysis, lockdown, host_stats, plc_status, lock,
                   dicts, snap, held, appended, attackCalled, isolatedSeen,
                   committed, pending, snapGhost>>

\* update_analysis, third statement, then the lock is released
update_analysis_flag(t) ==
    /\ call[t].op = "update_analysis" /\ call[t].step = 3
    /\ lockdown' = update_analysis_lockdown(call[t].verdict, lockdown)
    /\ lock' = NoThread
    /\ call' = [call EXCEPT ![t] = IdleCall]
    /\ committed' = AnalysisOf(visual_analysis, verdict, lockdown')
    /\ pending' = committed'
    /\ UNCHANGED <<ics_logs, visual_analysis, verdict, host_stats, plc_status, dicts,
                   snap, held, appended, attackCalled, isolatedSeen, snapGhost>>

set_plc_status(t, status) ==
    /\ _lock
    /\ plc_status' = status
    /\ UNCHANGED <<ics_logs, visual_analysis, verdict, lockdown, host_stats, lock,
                   dicts, call, snap, held, appended, attackCalled, isolatedSeen,
                   committed, pending, snapGhost>>

\* `"logs": list(self.ics_logs)`: a new list with the same items
snapshot_logs(l) == [shared |-> FALSE, items |-> l]

\* `"host": self.host_stats`: the dict object itself, not a copy
snapshot_host(h) == h

\* the dict get_snapshot builds
snapshot_value ==
    [logs |-> snapshot_logs(ics_logs),
     analysis |-> visual_analysis,
     verdict |-> verdict,
     lockdown |-> lockdown,
     host |-> snapshot_host(host_stats),
     plc_status |-> plc_status]

AllKeys == {"logs", "analysis", "verdict", "lockdown", "host", "plc_status"}

\* A caller's view of a snapshot: the keys the caller goes on to read.  The
\* keys a caller never reads are dead and are kept blank.
view(s, keys) ==
    [logs |-> IF "logs" \in keys THEN s.logs ELSE EmptySnap.logs,
     analysis |-> IF "analysis" \in keys THEN s.analysis ELSE EmptySnap.analysis,
     verdict |-> IF "verdict" \in keys THEN s.verdict ELSE EmptySnap.verdict,
     lockdown |-> IF "lockdown" \in keys THEN s.lockdown ELSE EmptySnap.lockdown,
     host |-> IF "host" \in keys THEN s.host ELSE EmptySnap.host,
     plc_status |-> IF "plc_status" \in keys THEN s.plc_status ELSE EmptySnap.plc_status]

\* what the run looked like when the snapshot was taken
ghost_value(keys) ==
    [afterAttack |-> attackCalled,
     afterIsolated |-> isolatedSeen,
     pre |-> IF keys = AllKeys THEN committed ELSE EmptyGhost.pre,
     post |-> IF keys = AllKeys THEN pending ELSE EmptyGhost.post,
     appended |-> IF keys = AllKeys THEN appended ELSE EmptyGhost.appended,
     logs |-> IF keys = AllKeys THEN ics_logs ELSE EmptyGhost.logs,
     host |-> IF keys = AllKeys THEN dicts[host_stats] ELSE EmptyGhost.host]

\* get_snapshot, called by thread t which reads `keys` of the result
get_snapshot(t, keys) ==
    /\ get_snapshot_lock
    /\ snap' = [snap EXCEPT ![t] = view(snapshot_value, keys)]
    /\ held' = [held EXCEPT ![t] = TRUE]
    /\ snapGhost' = [snapGhost EXCEPT ![t] = ghost_value(keys)]
    /\ isolatedSeen' = (isolatedSeen \/ plc_status = ISOLATED)
    /\ UNCHANGED <<ics_logs, visual_analysis, verdict, lockdown, host_stats,
                   plc_status, lock, dicts, call, appended, attackCalled, committed,
                   pending>>

\* get_snapshot whose result is a temporary: `get_snapshot()["lockdown"]`, or
\* a local used up before the caller's next statement that touches anything
\* shared.  The caller reads snapshot_value in the same step.
use_snapshot(t) ==
    /\ get_snapshot_lock
    /\ isolatedSeen' = (isolatedSeen \/ plc_status = ISOLATED)
    /\ UNCHANGED <<ics_logs, visual_analysis, verdict, lockdown, host_stats,
                   plc_status, lock, dicts, call, snap, held, appended,
                   attackCalled, committed, pending, snapGhost>>

\* a local that held a snapshot goes out of scope or is no longer used
drop_snapshot(t) ==
    /\ snap' = [snap EXCEPT ![t] = EmptySnap]
    /\ held' = [held EXCEPT ![t] = FALSE]
    /\ snapGhost' = [snapGhost EXCEPT ![t] = EmptyGhost]
    /\ UNCHANGED <<ics_logs, visual_analysis, verdict, lockdown, host_stats,
                   plc_status, lock, dicts, call, appended, attackCalled,
                   isolatedSeen, committed, pending>>

\* the rest of an accessor call in progress
accessor_step(t) ==
    /\ \/ add_log_evict(t)
       \/ update_analysis_verdict(t)
       \/ update_analysis_flag(t)
    /\ UNCHANGED taskVars

\* ------------------------------------------------------- engine, at start
\* the engine before run(): locals unset, nothing captured or sent
TaskInit ==
    /\ pc = [t \in Threads |->
              CASE t = "modbus" -> "m_top"
                [] t = "telemetry" -> "t_top"
                [] t = "vision" -> "v_start"
                [] OTHER -> "u_top"]
    /\ plc_pid = "None"
    /\ connected = FALSE
    /\ model_name = "None"
    /\ attempt = 0
    /\ probe = 1
    /\ cap_open = FALSE
    /\ polls = 0
    /\ issued = [log |-> 0, analysis |-> 0, host |-> 0]
    /\ connectsAfterLockdown = 0
    /\ captured = FALSE
    /\ inferred = FALSE
    /\ attackOnline = FALSE

\* ------------------------------------------ accessor-level specifications
\* Callers that make arbitrary accessor calls on a fresh SentinelState.
AccInit ==
    /\ StateInit
    /\ TaskInit
    /\ api_key = "KEY" /\ client = TRUE /\ plc_running = TRUE
    /\ reachable = {}

Statuses == {CONNECTING, OFFLINE, ONLINE, ISOLATED}
Verdicts == {SECURE, ATTACK}
AccTexts == {RespAttack, RespSecure}
AccWriters == {"modbus", "vision"}
AccReader == "ui"

acc_add_log(t, max) ==
    /\ Idle(t)
    /\ issued.log < max
    /\ add_log(t, LogOK)
    /\ issued' = [issued EXCEPT !.log = @ + 1]
    /\ UNCHANGED <<pc, plc_pid, connected, client, model_name, attempt, probe,
                   cap_open, api_key, reachable, plc_running, polls, connectsAfterLockdown,
                   captured, inferred, attackOnline>>

acc_update_analysis(t) ==
    /\ Idle(t)
    /\ \E text \in AccTexts, v \in Verdicts : update_analysis(t, text, v)
    /\ UNCHANGED taskVars

log_update_analysis(t) ==
    /\ Idle(t)
    /\ issued.analysis < MaxAnalyses
    /\ \E text \in AccTexts, v \in Verdicts : update_analysis(t, text, v)
    /\ issued' = [issued EXCEPT !.analysis = @ + 1]
    /\ UNCHANGED <<pc, plc_pid, connected, client, model_name, attempt, probe,
                   cap_open, api_key, reachable, plc_running, polls, connectsAfterLockdown,
                   captured, inferred, attackOnline>>

acc_update_host(t) ==
    /\ Idle(t)
    /\ issued.host < MaxHostUpdates
    /\ \E h \in HostSamples : update_host(t, h[1], h[2])
    /\ issued' = [issued EXCEPT !.host = @ + 1]
    /\ UNCHANGED <<pc, plc_pid, connected, client, model_name, attempt, probe,
                   cap_open, api_key, reachable, plc_running, polls, connectsAfterLockdown,
                   captured, inferred, attackOnline>>

acc_set_plc_status(t) ==
    /\ Idle(t)
    /\ \E s \in Statuses : s # plc_status /\ set_plc_status(t, s)
    /\ UNCHANGED taskVars

acc_get_snapshot(t) ==
    /\ Idle(t)
    /\ get_snapshot(t, AllKeys)
    /\ UNCHANGED taskVars

acc_drop_snapshot(t) ==
    /\ held[t]
    /\ drop_snapshot(t)
    /\ UNCHANGED taskVars

\* SpecLog: one writer fills the log ring past its capacity and publishes
\* analyses, one reader takes snapshots.
NextLog ==
    \/ acc_add_log("vision", MaxLogCalls)
    \/ log_update_analysis("vision")
    \/ accessor_step("vision")
    \/ acc_get_snapshot(AccReader)
    \/ acc_drop_snapshot(AccReader)

SpecLog == AccInit /\ [][NextLog]_vars

\* SpecAcc: two writers call any mutator with any argument in any order, one
\* reader takes snapshots and keeps them while the writers go on.
NextAcc ==
    \/ \E t \in AccWriters : acc_add_log(t, MaxAccLogs)
    \/ \E t \in AccWriters : acc_update_analysis(t)
    \/ \E t \in AccWriters : acc_update_host(t)
    \/ \E t \in AccWriters : acc_set_plc_status(t)
    \/ \E t \in AccWriters : accessor_step(t)
    \/ acc_get_snapshot(AccReader)
    \/ acc_drop_snapshot(AccReader)

SpecAcc == AccInit /\ [][NextAcc]_vars

\* --------------------------------------------------- SentinelEngine.__init__
\* `if api_key:` the placeholder key is taken for a credential
has_client_placeholder(key) == key # ""

\* `if api_key and api_key != "YOUR_API_KEY"`: whether a client is created
has_client(key) == key # "" /\ key # "YOUR_API_KEY"

ApiKeys == {"", "YOUR_API_KEY", "KEY"}

\* The models of the inference service that answer the probe: none, or the
\* second candidate only (the first probe fails, the second binds).
ModelEnvs == {{}, {"gemini-2.0-flash"}}

Init ==
    /\ StateInit
    /\ TaskInit
    /\ api_key \in ApiKeys
    /\ client = has_client(api_key)
    /\ plc_running \in BOOLEAN
    /\ reachable \in ModelEnvs

\* ------------------------------------------------------------ modbus_loop
\* `snap = self.state.get_snapshot()` at the top of `while True`
modbus_snapshot ==
    /\ pc["modbus"] = "m_top" /\ Idle("modbus")
    /\ get_snapshot("modbus", {"lockdown"})
    /\ pc' = [pc EXCEPT !["modbus"] = "m_check"]
    /\ UNCHANGED <<plc_pid, connected, client, model_name, attempt, probe, cap_open,
                   api_key, reachable, plc_running, polls, issued, connectsAfterLockdown,
                   captured, inferred, attackOnline>>

\* `if True:` the kill switch runs whatever the snapshot says
kill_switch_guard_always(s) == TRUE

\* `if snap["lockdown"]:`
kill_switch_guard(s) == s.lockdown

\* _get_plc_pid: the pid of the controller process when the scan finds it; a
\* process whose command line cannot be read is skipped
_get_plc_pid == IF plc_running THEN {"PID", "None"} ELSE {"None"}

\* `if not plc_pid: plc_pid = self._get_plc_pid()`
modbus_scan ==
    /\ pc["modbus"] = "m_check" /\ Idle("modbus")
    /\ kill_switch_guard(snap["modbus"])
    /\ IF plc_pid = "None" THEN plc_pid' \in _get_plc_pid ELSE plc_pid' = plc_pid
    /\ pc' = [pc EXCEPT !["modbus"] = "m_kill"]
    /\ UNCHANGED <<connected, client, model_name, attempt, probe, cap_open, api_key, reachable,
                   plc_running, polls, issued, connectsAfterLockdown, captured,
                   inferred, attackOnline>>
    /\ UNCHANGED accVars

\* `if plc_pid:` not taken
modbus_kill_skip ==
    /\ pc["modbus"] = "m_kill" /\ Idle("modbus")
    /\ plc_pid = "None"
    /\ pc' = [pc EXCEPT !["modbus"] = "m_close"]
    /\ UNCHANGED <<plc_pid, connected, client, model_name, attempt, probe, cap_open,
                   api_key, reachable, plc_running, polls, issued, connectsAfterLockdown,
                   captured, inferred, attackOnline>>
    /\ UNCHANGED accVars

\* the process object is made, `p.kill()` is not called, the line is logged
modbus_kill_not_killed ==
    /\ pc["modbus"] = "m_kill" /\ Idle("modbus")
    /\ plc_pid # "None"
    /\ pc' = [pc EXCEPT !["modbus"] = "m_kill_log"]
    /\ UNCHANGED <<plc_pid, connected, client, model_name, attempt, probe, cap_open,
                   api_key, reachable, plc_running, polls, issued, connectsAfterLockdown,
                   captured, inferred, attackOnline>>
    /\ UNCHANGED accVars

\* `p = psutil.Process(plc_pid); p.kill()` succeeds
modbus_kill ==
    /\ pc["modbus"] = "m_kill" /\ Idle("modbus")
    /\ plc_pid # "None"
    /\ plc_running' = FALSE
    /\ pc' = [pc EXCEPT !["modbus"] = "m_kill_log"]
    /\ UNCHANGED <<plc_pid, connected, client, model_name, attempt, probe, cap_open,
                   api_key, reachable, polls, issued, connectsAfterLockdown, captured,
                   inferred, attackOnline>>
    /\ UNCHANGED accVars

\* `p.kill()` raises and there is no `except`: the exception ends the thread
modbus_kill_fails_uncaught ==
    /\ pc["modbus"] = "m_kill" /\ Idle("modbus")
    /\ plc_pid # "None"
    /\ pc' = [pc EXCEPT !["modbus"] = "m_aborted"]
    /\ UNCHANGED <<plc_pid, connected, client, model_name, attempt, probe, cap_open,
                   api_key, reachable, plc_running, polls, issued, connectsAfterLockdown,
                   captured, inferred, attackOnline>>
    /\ UNCHANGED accVars

\* `p.kill()` raises (insufficient privilege): `except: pass`
modbus_kill_fails ==
    /\ pc["modbus"] = "m_kill" /\ Idle("modbus")
    /\ plc_pid # "None"
    /\ pc' = [pc EXCEPT !["modbus"] = "m_close"]
    /\ UNCHANGED <<plc_pid, connected, client, model_name, attempt, probe, cap_open,
                   api_key, reachable, plc_running, polls, issued, connectsAfterLockdown,
                   captured, inferred, attackOnline>>
    /\ UNCHANGED accVars

\* `self.state.add_log("[SENTINEL] PHYSICAL ISOLATION: ...")`
modbus_kill_log ==
    /\ pc["modbus"] = "m_kill_log" /\ Idle("modbus")
    /\ add_log("modbus", LogPhysical)
    /\ pc' = [pc EXCEPT !["modbus"] = "m_close"]
    /\ UNCHANGED <<plc_pid, connected, client, model_name, attempt, probe, cap_open,
                   api_key, reachable, plc_running, polls, issued, connectsAfterLockdown,
                   captured, inferred, attackOnline>>

\* `mb_client.close()`
modbus_close ==
    /\ pc["modbus"] = "m_close" /\ Idle("modbus")
    /\ connected' = FALSE
    /\ pc' = [pc EXCEPT !["modbus"] = "m_isolate"]
    /\ UNCHANGED <<plc_pid, client, model_name, attempt, probe, cap_open, api_key, reachable,
                   plc_running, polls, issued, connectsAfterLockdown, captured,
                   inferred, attackOnline>>
    /\ UNCHANGED accVars

\* `self.state.set_plc_status("ISOLATED (SAFE)")`
modbus_isolate ==
    /\ pc["modbus"] = "m_isolate" /\ Idle("modbus")
    /\ set_plc_status("modbus", ISOLATED)
    /\ pc' = [pc EXCEPT !["modbus"] = "m_severed"]
    /\ UNCHANGED <<plc_pid, connected, client, model_name, attempt, probe, cap_open,
                   api_key, reachable, plc_running, polls, issued, connectsAfterLockdown,
                   captured, inferred, attackOnline>>

\* the `break` is missing: the thread falls through to the polling logic
after_kill_switch_no_break == "m_poll"

\* `continue` instead of `break`: the loop starts over after the kill switch
after_kill_switch_restart == "m_top"

\* `break` after the kill switch: where the thread goes next
after_kill_switch == "m_done"

\* `self.state.add_log("[SENTINEL] NETWORK CONNECTION SEVERED."); break`
modbus_severed ==
    /\ pc["modbus"] = "m_severed" /\ Idle("modbus")
    /\ add_log("modbus", LogSevered)
    /\ pc' = [pc EXCEPT !["modbus"] = after_kill_switch]
    /\ UNCHANGED <<plc_pid, connected, client, model_name, attempt, probe, cap_open,
                   api_key, reachable, plc_running, polls, issued, connectsAfterLockdown,
                   captured, inferred, attackOnline>>

\* the snapshot is taken once, before the loop: every iteration reuses it
after_poll_stale == "m_check"

\* end of a poll iteration (`continue`, or the end of the loop body): the
\* loop starts over with a new snapshot
after_poll == "m_top"

\* `mb_client.connect()`: TRUE when the link is up.  The controller accepts
\* at most MaxPolls connections, then stays unreachable.
connect_outcomes ==
    {FALSE} \cup (IF polls < MaxPolls /\ plc_running THEN {TRUE} ELSE {})

\* the polling branch up to the connection attempt
modbus_connect ==
    /\ pc["modbus"] \in {"m_check", "m_poll"} /\ Idle("modbus")
    /\ pc["modbus"] = "m_check" => ~kill_switch_guard(snap["modbus"])
    /\ \E r \in connect_outcomes :
          /\ pc' = [pc EXCEPT !["modbus"] = IF r THEN "m_online" ELSE "m_offline"]
          /\ connected' = (connected \/ r)
          /\ polls' = (IF r THEN polls + 1 ELSE polls)
    /\ connectsAfterLockdown' =
          (IF lockdown THEN Min(connectsAfterLockdown + 1, 2) ELSE connectsAfterLockdown)
    /\ UNCHANGED <<plc_pid, client, model_name, attempt, probe, cap_open, api_key, reachable,
                   plc_running, issued, captured, inferred, attackOnline>>
    /\ UNCHANGED accVars

\* `self.state.set_plc_status("CONNECTING..."); time.sleep(2); continue`
modbus_offline_connecting ==
    /\ pc["modbus"] = "m_offline" /\ Idle("modbus")
    /\ set_plc_status("modbus", CONNECTING)
    /\ pc' = [pc EXCEPT !["modbus"] = after_poll]
    /\ UNCHANGED <<plc_pid, connected, client, model_name, attempt, probe, cap_open,
                   api_key, reachable, plc_running, polls, issued, connectsAfterLockdown,
                   captured, inferred, attackOnline>>

\* `time.sleep(2); continue` without the status write
modbus_offline_no_status ==
    /\ pc["modbus"] = "m_offline" /\ Idle("modbus")
    /\ pc' = [pc EXCEPT !["modbus"] = after_poll]
    /\ UNCHANGED <<plc_pid, connected, client, model_name, attempt, probe, cap_open,
                   api_key, reachable, plc_running, polls, issued, connectsAfterLockdown,
                   captured, inferred, attackOnline>>
    /\ UNCHANGED accVars

\* `self.state.set_plc_status("OFFLINE"); time.sleep(2); continue`
modbus_offline ==
    /\ pc["modbus"] = "m_offline" /\ Idle("modbus")
    /\ set_plc_status("modbus", OFFLINE)
    /\ pc' = [pc EXCEPT !["modbus"] = after_poll]
    /\ UNCHANGED <<plc_pid, connected, client, model_name, attempt, probe, cap_open,
                   api_key, reachable, plc_running, polls, issued, connectsAfterLockdown,
                   captured, inferred, attackOnline>>

\* `self.state.set_plc_status("ONLINE (MODBUS_TCP)")`
modbus_online ==
    /\ pc["modbus"] = "m_online" /\ Idle("modbus")
    /\ set_plc_status("modbus", ONLINE)
    /\ pc' = [pc EXCEPT !["modbus"] = "m_read"]
    /\ UNCHANGED <<plc_pid, connected, client, model_name, attempt, probe, cap_open,
                   api_key, reachable, plc_running, polls, issued, connectsAfterLockdown,
                   captured, inferred, attackOnline>>

\* read_holding_registers: the line the iteration logs
read_outcomes == {LogComms, LogException} \cup (IF plc_running THEN {LogOK} ELSE {})

\* the register read and the add_log of its outcome
modbus_read ==
    /\ pc["modbus"] = "m_read" /\ Idle("modbus")
    /\ \E line \in read_outcomes : add_log("modbus", line)
    /\ pc' = [pc EXCEPT !["modbus"] = after_poll]
    /\ UNCHANGED <<plc_pid, connected, client, model_name, attempt, probe, cap_open,
                   api_key, reachable, plc_running, polls, issued, connectsAfterLockdown,
                   captured, inferred, attackOnline>>

modbus_loop ==
    \/ modbus_snapshot
    \/ modbus_scan
    \/ modbus_kill_skip
    \/ modbus_kill
    \/ modbus_kill_fails
    \/ modbus_kill_log
    \/ modbus_close
    \/ modbus_isolate
    \/ modbus_severed
    \/ modbus_connect
    \/ modbus_offline
    \/ modbus_online
    \/ modbus_read
    \/ accessor_step("modbus")

\* --------------------------------------------------------- telemetry_loop
\* `while True:` the loop never looks at lockdown
telemetry_guard_true(s) == TRUE

\* `not self.state.get_snapshot()["lockdown"]`, the condition of the `while`
telemetry_guard(s) == ~s.lockdown

\* `while not self.state.get_snapshot()["lockdown"]`: the loop ends
telemetry_exit ==
    /\ pc["telemetry"] = "t_top" /\ Idle("telemetry")
    /\ use_snapshot("telemetry")
    /\ ~telemetry_guard(snapshot_value)
    /\ pc' = [pc EXCEPT !["telemetry"] = "t_done"]
    /\ UNCHANGED <<plc_pid, connected, client, model_name, attempt, probe, cap_open,
                   api_key, reachable, plc_running, polls, issued, connectsAfterLockdown,
                   captured, inferred, attackOnline>>

\* `while not self.state.get_snapshot()["lockdown"]`: the loop goes on
telemetry_enter ==
    /\ pc["telemetry"] = "t_top" /\ Idle("telemetry")
    /\ use_snapshot("telemetry")
    /\ telemetry_guard(snapshot_value)
    /\ pc' = [pc EXCEPT !["telemetry"] = "t_sample"]
    /\ UNCHANGED <<plc_pid, connected, client, model_name, attempt, probe, cap_open,
                   api_key, reachable, plc_running, polls, issued, connectsAfterLockdown,
                   captured, inferred, attackOnline>>

\* `self.state.update_host(cpu, ram)`: at most MaxHostUpdates samples succeed
telemetry_update ==
    /\ pc["telemetry"] = "t_sample" /\ Idle("telemetry")
    /\ issued.host < MaxHostUpdates
    /\ \E h \in HostSamples : update_host("telemetry", h[1], h[2])
    /\ issued' = [issued EXCEPT !.host = @ + 1]
    /\ pc' = [pc EXCEPT !["telemetry"] = "t_top"]
    /\ UNCHANGED <<plc_pid, connected, client, model_name, attempt, probe, cap_open,
                   api_key, reachable, plc_running, polls, connectsAfterLockdown, captured,
                   inferred, attackOnline>>

\* psutil raises and there is no `except`: the exception ends the thread
telemetry_fails_uncaught ==
    /\ pc["telemetry"] = "t_sample" /\ Idle("telemetry")
    /\ pc' = [pc EXCEPT !["telemetry"] = "t_aborted"]
    /\ UNCHANGED <<plc_pid, connected, client, model_name, attempt, probe, cap_open,
                   api_key, reachable, plc_running, polls, issued, connectsAfterLockdown,
                   captured, inferred, attackOnline>>
    /\ UNCHANGED accVars

\* psutil raises: `except: pass`
telemetry_fails ==
    /\ pc["telemetry"] = "t_sample" /\ Idle("telemetry")
    /\ pc' = [pc EXCEPT !["telemetry"] = "t_top"]
    /\ UNCHANGED <<plc_pid, connected, client, model_name, attempt, probe, cap_open,
                   api_key, reachable, plc_running, polls, issued, connectsAfterLockdown,
                   captured, inferred, attackOnline>>
    /\ UNCHANGED accVars

telemetry_loop ==
    \/ telemetry_exit
    \/ telemetry_enter
    \/ telemetry_update
    \/ telemetry_fails
    \/ accessor_step("telemetry")

\* ------------------------------------------------------------ vision_loop
\* `txt.upper()`, word by word
upper_word(w) ==
    CASE w = "verdict:" -> "VERDICT:"
      [] w = "attack" -> "ATTACK"
      [] w = "secure" -> "SECURE"
      [] w = "Reasoning:" -> "REASONING:"
      [] w = "smoke" -> "SMOKE"
      [] w = "detected." -> "DETECTED."
      [] w = "clear." -> "CLEAR."
      [] OTHER -> w

upper(txt) == [i \in 1..Len(txt) |-> upper_word(txt[i])]

\* `needle in txt`
contains(txt, needle) ==
    \E i \in 1..(Len(txt) - Len(needle) + 1) :
        SubSeq(txt, i, i + Len(needle) - 1) = needle

\* `"ATTACK" if "VERDICT: ATTACK" in txt.upper() else "SECURE"`
parse_verdict(txt) ==
    IF contains(upper(txt), <<"VERDICT:", "ATTACK">>) THEN ATTACK ELSE SECURE

Candidates == <<"gemini-3-flash-preview", "gemini-2.0-flash", "gemini-1.5-flash">>

\* `if not self.client:` publish the degraded analysis and return
vision_no_key ==
    /\ pc["vision"] = "v_start" /\ Idle("vision")
    /\ ~client
    /\ update_analysis("vision", NoKeyText, SECURE)
    /\ pc' = [pc EXCEPT !["vision"] = "v_done"]
    /\ UNCHANGED <<plc_pid, connected, client, model_name, attempt, probe, cap_open,
                   api_key, reachable, plc_running, polls, issued, connectsAfterLockdown,
                   captured, inferred, attackOnline>>

\* one candidate of the model probe answers: bind it and log
vision_probe_ok ==
    /\ pc["vision"] \in {"v_start", "v_probe"} /\ Idle("vision")
    /\ client
    /\ probe <= Len(Candidates)
    /\ Candidates[probe] \in reachable
    /\ model_name' = Candidates[probe]
    /\ inferred' = TRUE
    /\ add_log("vision", LogVision)
    /\ pc' = [pc EXCEPT !["vision"] = "v_model"]
    /\ UNCHANGED <<plc_pid, connected, client, attempt, probe, cap_open, api_key, reachable,
                   plc_running, polls, issued, connectsAfterLockdown, captured,
                   attackOnline>>

\* one candidate of the model probe raises: `except: continue`
vision_probe_fails ==
    /\ pc["vision"] \in {"v_start", "v_probe"} /\ Idle("vision")
    /\ client
    /\ probe <= Len(Candidates)
    /\ Candidates[probe] \notin reachable
    /\ probe' = probe + 1
    /\ inferred' = TRUE
    /\ pc' = [pc EXCEPT !["vision"] =
                IF probe = Len(Candidates) THEN "v_model" ELSE "v_probe"]
    /\ UNCHANGED <<plc_pid, connected, client, model_name, attempt, cap_open,
                   api_key, reachable, plc_running, polls, issued, connectsAfterLockdown,
                   captured, attackOnline>>
    /\ UNCHANGED accVars

\* `if not self.model_name:` publish the access error and return
vision_no_model ==
    /\ pc["vision"] = "v_model" /\ Idle("vision")
    /\ model_name = "None"
    /\ update_analysis("vision", AccessErrorText, SECURE)
    /\ pc' = [pc EXCEPT !["vision"] = "v_done"]
    /\ UNCHANGED <<plc_pid, connected, client, model_name, attempt, probe, cap_open,
                   api_key, reachable, plc_running, polls, issued, connectsAfterLockdown,
                   captured, inferred, attackOnline>>

\* `cap = cv2.VideoCapture(self.camera_index)`
vision_open ==
    /\ pc["vision"] = "v_model" /\ Idle("vision")
    /\ model_name # "None"
    /\ cap_open' = TRUE
    /\ pc' = [pc EXCEPT !["vision"] = "v_top"]
    /\ UNCHANGED <<plc_pid, connected, client, model_name, attempt, probe, api_key, reachable,
                   plc_running, polls, issued, connectsAfterLockdown, captured,
                   inferred, attackOnline>>
    /\ UNCHANGED accVars

\* `while True:` the loop never looks at lockdown
vision_guard_true(s) == TRUE

\* `not self.state.get_snapshot()["lockdown"]`, the condition of the `while`
vision_guard(s) == ~s.lockdown

\* `while not self.state.get_snapshot()["lockdown"]`: the loop ends, `cap.release()`
vision_exit ==
    /\ pc["vision"] = "v_top" /\ Idle("vision")
    /\ use_snapshot("vision")
    /\ ~vision_guard(snapshot_value)
    /\ cap_open' = FALSE
    /\ pc' = [pc EXCEPT !["vision"] = "v_done"]
    /\ UNCHANGED <<plc_pid, connected, client, model_name, attempt, probe, api_key, reachable,
                   plc_running, polls, issued, connectsAfterLockdown, captured,
                   inferred, attackOnline>>

\* `while not self.state.get_snapshot()["lockdown"]`: the loop goes on
vision_enter ==
    /\ pc["vision"] = "v_top" /\ Idle("vision")
    /\ use_snapshot("vision")
    /\ vision_guard(snapshot_value)
    /\ pc' = [pc EXCEPT !["vision"] = "v_capture"]
    /\ UNCHANGED <<plc_pid, connected, client, model_name, attempt, probe, cap_open,
                   api_key, reachable, plc_running, polls, issued, connectsAfterLockdown,
                   captured, inferred, attackOnline>>

\* `ret, frame = cap.read()`: no frame, `time.sleep(1); continue`
vision_no_frame ==
    /\ pc["vision"] = "v_capture" /\ Idle("vision")
    /\ pc' = [pc EXCEPT !["vision"] = "v_top"]
    /\ UNCHANGED <<plc_pid, connected, client, model_name, attempt, probe, cap_open,
                   api_key, reachable, plc_running, polls, issued, connectsAfterLockdown,
                   captured, inferred, attackOnline>>
    /\ UNCHANGED accVars

\* `ret, frame = cap.read()`: a frame, the attempts start
vision_frame ==
    /\ pc["vision"] = "v_capture" /\ Idle("vision")
    /\ captured' = TRUE
    /\ attempt' = 0
    /\ pc' = [pc EXCEPT !["vision"] = "v_infer"]
    /\ UNCHANGED <<plc_pid, connected, client, model_name, probe, cap_open, api_key, reachable,
                   plc_running, polls, issued, connectsAfterLockdown, inferred,
                   attackOnline>>
    /\ UNCHANGED accVars

\* generate_content answers: parse the verdict, publish, `break`
vision_response ==
    /\ pc["vision"] = "v_infer" /\ Idle("vision")
    /\ \E txt \in Responses :
          /\ update_analysis("vision", txt, parse_verdict(txt))
          /\ attackOnline' = (attackOnline \/
                                (parse_verdict(txt) = ATTACK /\ plc_status = ONLINE))
    /\ inferred' = TRUE
    /\ pc' = [pc EXCEPT !["vision"] = "v_top"]
    /\ UNCHANGED <<plc_pid, connected, client, model_name, attempt, probe, cap_open,
                   api_key, reachable, plc_running, polls, issued, connectsAfterLockdown,
                   captured>>

\* generate_content raises with "429" in the message: `time.sleep(2); continue`;
\* after the last attempt the `for` is over and the cycle ends
vision_rate_limited ==
    /\ pc["vision"] = "v_infer" /\ Idle("vision")
    /\ inferred' = TRUE
    /\ IF attempt + 1 < MaxAttempts
       THEN /\ attempt' = attempt + 1
            /\ pc' = pc
       ELSE /\ attempt' = attempt
            /\ pc' = [pc EXCEPT !["vision"] = "v_top"]
    /\ UNCHANGED <<plc_pid, connected, client, model_name, probe, cap_open, api_key, reachable,
                   plc_running, polls, issued, connectsAfterLockdown, captured,
                   attackOnline>>
    /\ UNCHANGED accVars

\* `update_analysis(f"REASONING DELAY: ...", "ATTACK")`
delay_verdict_attack == ATTACK

\* the verdict the outer `except` publishes with the delay text
delay_verdict == SECURE

\* any other exception of the cycle: `raise e`, then the outer `except`
vision_delay ==
    /\ pc["vision"] = "v_infer" /\ Idle("vision")
    /\ update_analysis("vision", DelayText, delay_verdict)
    /\ pc' = [pc EXCEPT !["vision"] = "v_top"]
    /\ UNCHANGED <<plc_pid, connected, client, model_name, attempt, probe, cap_open,
                   api_key, reachable, plc_running, polls, issued, connectsAfterLockdown,
                   captured, inferred, attackOnline>>

vision_loop ==
    \/ vision_no_key
    \/ vision_probe_ok
    \/ vision_probe_fails
    \/ vision_no_model
    \/ vision_open
    \/ vision_exit
    \/ vision_enter
    \/ vision_no_frame
    \/ vision_frame
    \/ vision_response
    \/ vision_rate_limited
    \/ vision_delay
    \/ accessor_step("vision")

\* -------------------------------------------------------------- update_ui
\* update_ui: one snapshot, the four panels rendered from it; nothing of the
\* shared state is written and the snapshot is gone when update_ui returns
update_ui ==
    /\ Idle("ui")
    /\ use_snapshot("ui")
    /\ UNCHANGED taskVars

\* ------------------------------------------------------ SentinelEngine.run
Next ==
    \/ modbus_loop
    \/ telemetry_loop
    \/ vision_loop
    \/ update_ui

Spec == Init /\ [][Next]_vars

\* Every started thread that can take a step keeps being scheduled.
Fairness ==
    /\ WF_vars(modbus_loop)
    /\ WF_vars(telemetry_loop)
    /\ WF_vars(vision_loop)
    /\ WF_vars(update_ui)

FairSpec == Spec /\ Fairness

\* Only the three monitoring threads keep being scheduled; the dashboard
\* thread may stall (it never holds the lock from one step to the next).
LoopFairness ==
    /\ WF_vars(modbus_loop)
    /\ WF_vars(telemetry_loop)
    /\ WF_vars(vision_loop)

FairLoopSpec == Spec /\ LoopFairness

\* ================================================================ claims
NoAddLogInProgress == \A t \in Threads : call[t].op # "add_log"
HasLine(txt) == \E i \in 1..Len(ics_logs) : ics_logs[i].txt = txt

\* C1: whenever no add_log call is in the middle of its critical section, the
\* log ring holds at most 50 lines and they are exactly the last min(n, 50) of
\* the n lines appended so far, oldest first (line i of the ring is appended
\* line n - k + i).
C1_LogRing ==
    NoAddLogInProgress =>
        LET n == appended
            k == Min(n, LogCap)
        IN /\ Len(ics_logs) <= LogCap
           /\ Len(ics_logs) = k
           /\ \A i \in 1..k : ics_logs[i].seq = n - k + i

\* more than 50 lines were appended and the oldest ones are gone
C1_Witness ==
    /\ NoAddLogInProgress
    /\ appended > LogCap + 1
    /\ Len(ics_logs) = LogCap
    /\ ics_logs[1].seq = appended - LogCap + 1

\* C2: every snapshot taken after an update_analysis call with verdict ATTACK
\* entered its critical section has lockdown true, whatever calls came later.
C2_LockdownOneWay ==
    \A t \in Threads : (held[t] /\ snapGhost[t].afterAttack) => snap[t].lockdown

\* a snapshot taken after ATTACK and after a later SECURE publication
C2_Witness ==
    /\ held[AccReader]
    /\ snapGhost[AccReader].afterAttack
    /\ snap[AccReader].verdict = SECURE
    /\ snap[AccReader].lockdown

\* C3: once a snapshot has reported ISOLATED, the link status is ISOLATED in
\* every later state, so every later snapshot reports ISOLATED.
C3_IsolatedTerminal == isolatedSeen => plc_status = ISOLATED

\* ISOLATED was reported and the monitor thread has left its loop
C3_Witness ==
    /\ isolatedSeen
    /\ pc["modbus"] = "m_done" /\ Idle("modbus")
    /\ HasLine(LogSevered)

KillSwitchPcs == {"m_kill", "m_kill_log", "m_close", "m_isolate", "m_severed"}

\* C4: link status ISOLATED implies lockdown, and the monitor is inside the
\* kill switch only with a snapshot that showed lockdown true.
C4_IsolatedImpliesLockdown ==
    /\ plc_status = ISOLATED => lockdown
    /\ pc["modbus"] \in KillSwitchPcs => (held["modbus"] /\ snap["modbus"].lockdown)

C4_Witness == plc_status = ISOLATED /\ lockdown

\* C5: lockdown true implies that update_analysis was called with verdict
\* ATTACK earlier in the run.
C5_LockdownImpliesAttack == lockdown => attackCalled

\* lockdown is set while the other three threads have been at work
C5_Witness == lockdown /\ attackCalled /\ polls > 0 /\ issued.host > 0

SnapAnalysis(t) == AnalysisOf(snap[t].analysis, snap[t].verdict, snap[t].lockdown)

\* C6: the analysis, verdict and lockdown of a snapshot are those of the
\* state before or after a whole update_analysis call (so verdict ATTACK comes
\* with lockdown), and the log of a snapshot is the ring after a whole add_log
\* call: at most 50 lines, the last ones appended.
C6_NoTornSnapshot ==
    \A t \in Threads :
        held[t] =>
            /\ SnapAnalysis(t) \in {snapGhost[t].pre, snapGhost[t].post}
            /\ snap[t].verdict = ATTACK => snap[t].lockdown
            /\ Len(SnapLogs(snap[t])) <= LogCap
            /\ Len(SnapLogs(snap[t])) = Min(snapGhost[t].appended, LogCap)

\* a snapshot of a full ring and of a published ATTACK
C6_Witness ==
    /\ held[AccReader]
    /\ Len(SnapLogs(snap[AccReader])) = LogCap
    /\ snapGhost[AccReader].appended > LogCap
    /\ snap[AccReader].verdict = ATTACK

\* C7: a snapshot already returned keeps the contents it had when it was
\* taken, and shares neither its log list nor its host-stats dict with the
\* shared state.
C7_DeepCopy ==
    \A t \in Threads :
        held[t] =>
            /\ SnapLogs(snap[t]) = snapGhost[t].logs
            /\ SnapHost(snap[t]) = snapGhost[t].host
            /\ ~snap[t].logs.shared
            /\ snap[t].host # host_stats

\* C8: after ATTACK was published with the link ONLINE, lockdown is true once
\* the publication is complete; the monitor makes at most one connection
\* attempt after lockdown became true (the iteration in flight); and lockdown
\* leads to link status ISOLATED.
C8_IsolationWithinOneCycle ==
    /\ []((attackOnline /\ Idle("vision")) => lockdown)
    /\ [](connectsAfterLockdown <= 1)
    /\ (lockdown ~> plc_status = ISOLATED)

\* ISOLATED after an ATTACK published with the link ONLINE, the iteration in
\* flight having gone on
C8_Witness ==
    /\ attackOnline
    /\ plc_status = ISOLATED
    /\ connectsAfterLockdown = 1

\* C9 as stated: in the ATTACK scenario, ISOLATED implies that the controller
\* process is no longer running.
C9_IsolatedImpliesStopped ==
    (attackOnline /\ plc_status = ISOLATED) => ~plc_running

\* C9 amended: in the ATTACK scenario, ISOLATED together with the logged
\* PHYSICAL ISOLATION line (the process was found and its termination did not
\* fail) implies that the controller process is no longer running.
C9_IsolatedAndKilledImpliesStopped ==
    (attackOnline /\ plc_status = ISOLATED /\ HasLine(LogPhysical)) => ~plc_running

C9_Witness ==
    /\ attackOnline
    /\ plc_status = ISOLATED
    /\ HasLine(LogPhysical)
    /\ ~plc_running

CredentialAbsent == api_key \in {"", "YOUR_API_KEY"}

\* C10: without a credential the inference loop only publishes the fixed
\* degraded analysis with verdict SECURE and ends, no frame is captured and
\* the inference service is not called, lockdown stays false, the link status
\* never becomes ISOLATED and the other two loops never end.
C10_DegradedMode ==
    CredentialAbsent =>
        /\ ~lockdown
        /\ verdict = SECURE
        /\ plc_status # ISOLATED
        /\ pc["vision"] \in {"v_start", "v_done"}
        /\ visual_analysis \in {InitText, NoKeyText}
        /\ (pc["vision"] = "v_done") => visual_analysis = NoKeyText
        /\ ~captured /\ ~inferred /\ ~cap_open
        /\ pc["modbus"] # "m_done"
        /\ pc["telemetry"] # "t_done"

\* the degraded analysis is published and the other loops are at work
C10_Witness ==
    /\ CredentialAbsent
    /\ pc["vision"] = "v_done" /\ Idle("vision")
    /\ visual_analysis = NoKeyText
    /\ polls > 0
    /\ issued.host > 0

\* the lines a register read logs (the read was issued)
ReadLines == {LogOK, LogComms, LogException}

\* the line appended by this step, if the step appended one
NewLine == ics_logs'[Len(ics_logs')].txt

\* C11: while every connection attempt has failed and the monitor has not
\* seen lockdown, no OK line (no line of a register read at all) is in the
\* log, the monitor is never at the ONLINE write or the register read, the
\* link status is CONNECTING (before the first failed cycle ends) or OFFLINE,
\* and every failed cycle, whatever came before it, ends by writing OFFLINE
\* and going back to the top of the loop without appending a line; while it
\* is in flight no OK line is appended.
C11_UnreachableStaysOffline ==
    /\ [](polls = 0 =>
            /\ \A i \in 1..Len(ics_logs) : ics_logs[i].txt \notin ReadLines
            /\ pc["modbus"] \notin {"m_online", "m_read"}
            /\ plc_status # ONLINE
            /\ (~lockdown => plc_status \in {CONNECTING, OFFLINE}))
    /\ [][pc["modbus"] = "m_offline" =>
            /\ (appended' > appended => NewLine # LogOK)
            /\ \/ pc'["modbus"] = "m_offline"
               \/ /\ pc'["modbus"] = "m_top"
                  /\ plc_status' = OFFLINE
                  /\ appended' = appended]_vars

\* a second failed cycle in flight: the first one left OFFLINE behind
C11_Witness ==
    /\ polls = 0
    /\ ~lockdown
    /\ plc_status = OFFLINE
    /\ pc["modbus"] = "m_offline"

\* where each loop can be while it runs, and where it is once it has returned
ModbusPcs == {"m_top", "m_check", "m_offline", "m_online", "m_read"} \cup KillSwitchPcs
TelemetryPcs == {"t_top", "t_sample"}
VisionPcs == {"v_start", "v_probe", "v_model", "v_top", "v_capture", "v_infer"}

\* thread t is inside an accessor or can take its next step
CanGoOn(t) ==
    \/ ~Idle(t)
    \/ lock # NoThread
    \/ t = "modbus" /\ ENABLED modbus_loop
    \/ t = "telemetry" /\ ENABLED telemetry_loop
    \/ t = "vision" /\ ENABLED vision_loop

\* C12: every monitoring thread is inside its loop (or its start-up), where
\* it can go on as soon as the lock is free, or it has returned through one
\* of its designed exits: the monitor after writing ISOLATED, the host
\* monitor with lockdown true, the inference loop with lockdown true, without
\* a client or without a model.  No failure leaves a thread anywhere else.
C12_NoAbnormalEnd ==
    /\ pc["modbus"] \in ModbusPcs \cup {"m_done"}
    /\ pc["telemetry"] \in TelemetryPcs \cup {"t_done"}
    /\ pc["vision"] \in VisionPcs \cup {"v_done"}
    /\ pc["modbus"] \in ModbusPcs => CanGoOn("modbus")
    /\ pc["telemetry"] \in TelemetryPcs => CanGoOn("telemetry")
    /\ pc["vision"] \in VisionPcs => CanGoOn("vision")
    /\ pc["modbus"] = "m_done" => (plc_status = ISOLATED /\ lockdown)
    /\ pc["telemetry"] = "t_done" => lockdown
    /\ pc["vision"] = "v_done" => (lockdown \/ ~client \/ model_name = "None")

\* a transport exception was logged, a model probe failed, the inference
\* cycle failed and published the delay, and all three loops are still going
C12_Witness ==
    /\ HasLine(LogException)
    /\ probe > 1
    /\ visual_analysis = DelayText
    /\ pc["modbus"] = "m_offline"
    /\ pc["telemetry"] = "t_sample"
    /\ pc["vision"] = "v_capture"

\* C13: a frame is submitted at most MaxAttempts = 2 times (the attempt index
\* stays below 2), and an inference cycle that ends on its retry (the first
\* submission was rate-limited) ends with a publication: the response, or,
\* when the retry failed too, the delay analysis with verdict SECURE.
C13_RateLimitFallsThroughToDelay ==
    /\ [](attempt < MaxAttempts)
    /\ [][(pc["vision"] = "v_infer" /\ attempt = MaxAttempts - 1
              /\ pc'["vision"] # "v_infer") =>
            /\ call'["vision"].op = "update_analysis"
            /\ \/ visual_analysis' \in Responses
               \/ visual_analysis' = DelayText /\ call'["vision"].verdict = SECURE]_vars

FailureTexts == {NoKeyText, AccessErrorText, DelayText}
AttackToken == <<"VERDICT:", "ATTACK">>

\* C14: an update_analysis call with verdict ATTACK publishes a response of
\* the inference service that contains the ATTACK verdict token; the texts of
\* the failure paths (no credential, no model, delay) are published with
\* verdict SECURE, before any ATTACK and with lockdown false; without a
\* client or a model no ATTACK is ever published; and lockdown is true only
\* with such a response as the analysis.
C14_FailureNeverAttack ==
    /\ (call["vision"].op = "update_analysis" /\ call["vision"].verdict = ATTACK) =>
           (visual_analysis \in Responses /\ contains(upper(visual_analysis), AttackToken))
    /\ visual_analysis \in FailureTexts =>
           (pending.verdict = SECURE /\ ~attackCalled /\ ~lockdown)
    /\ (~client \/ (pc["vision"] = "v_done" /\ model_name = "None")) =>
           (~attackCalled /\ ~lockdown)
    /\ (attackCalled \/ lockdown) =>
           (visual_analysis \in Responses /\ contains(upper(visual_analysis), AttackToken))

\* a rate limit, then another failure of the retry: the delay is published
\* with verdict SECURE
C14_Witness ==
    /\ attempt = 1
    /\ visual_analysis = DelayText
    /\ Idle("vision") /\ pc["vision"] = "v_top"
    /\ verdict = SECURE
    /\ ~lockdown

\* C15: once lockdown is true the host monitor and the inference loop do not
\* start another iteration (from the loop top they only leave), both end,
\* the inference loop with the capture device released, a loop that has
\* ended stays ended, and after its end the host monitor leaves the host
\* statistics alone and the inference loop makes no accessor call.
C15_LoopsEndAfterLockdown ==
    /\ lockdown ~> (pc["telemetry"] = "t_done" /\ pc["vision"] = "v_done" /\ ~cap_open)
    /\ [][(lockdown /\ pc["telemetry"] = "t_top") =>
              pc'["telemetry"] \in {"t_top", "t_done"}]_vars
    /\ [][(lockdown /\ pc["vision"] = "v_top") =>
              pc'["vision"] \in {"v_top", "v_done"}]_vars
    /\ [][pc["telemetry"] = "t_done" =>
              (pc'["telemetry"] = "t_done" /\ UNCHANGED <<host_stats, dicts>>)]_vars
    /\ [][(pc["vision"] = "v_done" /\ Idle("vision")) =>
              /\ pc'["vision"] = "v_done" /\ Idle("vision")'
              /\ UNCHANGED <<visual_analysis, verdict, lockdown, cap_open>>]_vars

\* both loops have ended after a lockdown that came while frames were
\* missing and samples were published
C15_Witness ==
    /\ lockdown
    /\ pc["telemetry"] = "t_done"
    /\ pc["vision"] = "v_done" /\ Idle("vision")
    /\ ~cap_open
    /\ issued.host > 0

LineSeq(txt) == {ics_logs[i].seq : i \in {j \in 1..Len(ics_logs) : ics_logs[j].txt = txt}}

\* C16: whatever the termination step did (process not found, terminated,
\* termination failed), the kill switch goes on to the close, then to the
\* ISOLATED write, then to the SEVERED line: the steps follow each other in
\* that order, ISOLATED is only there with the connection closed, the SEVERED
\* line only with ISOLATED, and the monitor has only returned with all three
\* done.  The PHYSICAL ISOLATION line is only there when the process was
\* found and terminated, it is appended while the status is not ISOLATED yet
\* and it precedes the SEVERED line.
C16_KillSwitchProceeds ==
    /\ [](plc_status = ISOLATED => ~connected)
    /\ [](HasLine(LogSevered) => plc_status = ISOLATED)
    /\ [](pc["modbus"] = "m_done" =>
             (~connected /\ plc_status = ISOLATED /\ HasLine(LogSevered)))
    /\ [](HasLine(LogPhysical) => (plc_pid # "None" /\ ~plc_running))
    /\ [](\A a \in LineSeq(LogPhysical), b \in LineSeq(LogSevered) : a < b)
    /\ [][(appended' > appended /\ NewLine = LogPhysical) =>
              (plc_status # ISOLATED /\ pc'["modbus"] = "m_close")]_vars
    /\ [][pc["modbus"] = "m_kill" =>
              pc'["modbus"] \in {"m_kill", "m_kill_log", "m_close"}]_vars
    /\ [][pc["modbus"] = "m_kill_log" =>
              pc'["modbus"] \in {"m_kill_log", "m_close"}]_vars
    /\ [][pc["modbus"] = "m_close" =>
              \/ pc'["modbus"] = "m_close"
              \/ pc'["modbus"] = "m_isolate" /\ ~connected' /\ plc_status' # ISOLATED]_vars
    /\ [][pc["modbus"] = "m_isolate" =>
              \/ pc'["modbus"] = "m_isolate"
              \/ /\ pc'["modbus"] = "m_severed" /\ plc_status' = ISOLATED
                 /\ ~HasLine(LogSevered)']_vars
    /\ [][pc["modbus"] = "m_severed" =>
              \/ pc'["modbus"] = "m_severed"
              \/ pc'["modbus"] = "m_done" /\ NewLine = LogSevered]_vars

\* the termination of a found, running process failed after the link had
\* been up, and the kill switch has run to its end all the same
C16_Witness ==
    /\ pc["modbus"] = "m_done" /\ Idle("modbus")
    /\ plc_pid # "None" /\ plc_running
    /\ polls > 0
    /\ ~connected
    /\ plc_status = ISOLATED
    /\ HasLine(LogSevered) /\ ~HasLine(LogPhysical)

\* C17: the kill switch is entered only while the status is not ISOLATED and
\* no SEVERED line is logged, so ISOLATED is written at most once; the log
\* holds at most one SEVERED line; with that line logged the monitor has
\* returned, and a monitor that has returned stays so: no connection
\* attempt, no register read, no accessor call, no change of the link status
\* or of the connection.
C17_KillSwitchOnce ==
    /\ [](pc["modbus"] \in KillSwitchPcs \ {"m_severed"} =>
             (plc_status # ISOLATED /\ ~HasLine(LogSevered)))
    /\ [](pc["modbus"] = "m_severed" => ~HasLine(LogSevered))
    /\ [](Cardinality(LineSeq(LogSevered)) <= 1)
    /\ [](HasLine(LogSevered) => pc["modbus"] = "m_done")
    /\ [][(pc["modbus"] = "m_done" /\ Idle("modbus")) =>
              /\ pc'["modbus"] = "m_done" /\ Idle("modbus")'
              /\ UNCHANGED <<plc_status, connected, polls, plc_pid, ics_logs>>]_vars

\* every thread has ended and the log still holds exactly one SEVERED line
C17_Witness ==
    /\ pc["modbus"] = "m_done" /\ Idle("modbus")
    /\ pc["telemetry"] = "t_done"
    /\ pc["vision"] = "v_done"
    /\ plc_status = ISOLATED
    /\ Cardinality(LineSeq(LogSevered)) = 1

\* the changes of link status the claim allows
ClaimedTransitions ==
    {<<CONNECTING, ONLINE>>, <<ONLINE, OFFLINE>>, <<OFFLINE, ONLINE>>}
        \cup {<<s, ISOLATED>> : s \in Statuses \ {ISOLATED}}

\* C18 as stated: the status starts as CONNECTING and every change of it is
\* CONNECTING->ONLINE, ONLINE->OFFLINE, OFFLINE->ONLINE or a change to
\* ISOLATED.
C18_LinkStateMachine ==
    /\ plc_status = CONNECTING
    /\ [][plc_status' # plc_status =>
              <<plc_status, plc_status'>> \in ClaimedTransitions]_vars

\* C18 amended: the status starts as CONNECTING and every change of it is
\* CONNECTING->ONLINE, CONNECTING->OFFLINE (the first connection attempt
\* fails), ONLINE->OFFLINE, OFFLINE->ONLINE or a change to ISOLATED; so
\* CONNECTING is never re-entered and ISOLATED is never left.
C18_LinkStateMachineWithOffline ==
    /\ plc_status = CONNECTING
    /\ [][plc_status' # plc_status =>
              <<plc_status, plc_status'>> \in
                  ClaimedTransitions \cup {<<CONNECTING, OFFLINE>>}]_vars
    /\ [][plc_status # CONNECTING => plc_status' # CONNECTING]_vars
    /\ [][plc_status = ISOLATED => plc_status' = ISOLATED]_vars

\* the link went OFFLINE without ever having been ONLINE, then came up
C18_Witness ==
    /\ polls = 1
    /\ pc["modbus"] = "m_online"
    /\ plc_status = OFFLINE

\* thread t is in an accessor call `op` before or after the step
Calls(t, op) == call[t].op = op \/ call'[t].op = op

\* C19: the log is changed only by add_log calls of the monitor, the link
\* status only by a step of the monitor, the host statistics only by a step
\* of the host monitor, the analysis text, the verdict and lockdown only by
\* update_analysis calls of the inference loop; and a step that writes the
\* fields of one owner leaves the fields of the other owners unchanged.
C19_FieldOwnership ==
    /\ [][ics_logs' # ics_logs =>
              /\ Calls("modbus", "add_log")
              /\ UNCHANGED <<plc_status, host_stats, visual_analysis, verdict, lockdown>>]_vars
    /\ [][plc_status' # plc_status =>
              /\ pc'["modbus"] # pc["modbus"]
              /\ UNCHANGED <<ics_logs, host_stats, visual_analysis, verdict, lockdown>>]_vars
    /\ [][host_stats' # host_stats =>
              /\ pc'["telemetry"] # pc["telemetry"]
              /\ UNCHANGED <<ics_logs, plc_status, visual_analysis, verdict, lockdown>>]_vars
    /\ [][<<visual_analysis, verdict, lockdown>>' # <<visual_analysis, verdict, lockdown>> =>
              /\ Calls("vision", "update_analysis")
              /\ UNCHANGED <<ics_logs, plc_status, host_stats>>]_vars

\* C20: whenever lockdown is true the verdict is ATTACK, the analysis text is
\* the response that carried the ATTACK token, and the inference loop is at
\* its loop top or has returned, with no publication in progress.
C20_VerdictNotReverted ==
    lockdown =>
        /\ verdict = ATTACK
        /\ parse_verdict(visual_analysis) = ATTACK
        /\ committed = AnalysisOf(visual_analysis, ATTACK, TRUE)
        /\ pc["vision"] \in {"v_top", "v_done"} /\ Idle("vision")

\* the whole system has wound down after the lockdown and the verdict is
\* still ATTACK
C20_Witness ==
    /\ lockdown /\ verdict = ATTACK
    /\ pc["vision"] = "v_done"
    /\ pc["modbus"] = "m_done" /\ Idle("modbus")
    /\ plc_status = ISOLATED
    /\ HasLine(LogOK)
====
